---- MODULE Spec2Model ----
(***************************************************************************)
(* The skill-set clustering and ranking engine of prorecom_backend:        *)
(* the process-wide cluster caches of src/src/settings.py, the builds      *)
(* cluster_projects / cluster_candidates, the ranking functions            *)
(* get_ranked_projects / get_ranked_candidates, the GraphQL mutations      *)
(* that commit a change and then request a rebuild, the listing resolvers  *)
(* that hydrate a ranked list, and the startup task of src/src/main.py.    *)
(*                                                                         *)
(* Request handlers are asyncio coroutines: a handler runs without         *)
(* interruption between two awaits, so every action below is the code      *)
(* between two suspension points.  The database answers a query at some    *)
(* moment between the await and the resumption of the coroutine, hence a   *)
(* corpus fetch (the database read) and the publication that follows it    *)
(* are two steps.                                                          *)
(*                                                                         *)
(* Vectors are pairs of naturals (dimension 2 instead of 300).  None is    *)
(* the empty tuple; an Optional global of settings.py is <<>> (None) or    *)
(* <<value>>.                                                              *)
(***************************************************************************)
EXTENDS Integers, Sequences, FiniteSets, TLC

\* ------------------------------------------------------------------ bounds
MaxProjects == 9
MaxCandidates == 5
NumHandlers == 2
MaxMutations == 2
MaxLoadCalls == 4

\* ------------------------------------------------------- program constants
ProjectNClusters == 8
CandidateNClusters == 4
MinCandidates == 4
MaxListing == 10

Kinds == {"project", "candidate"}
Other(k) == IF k = "project" THEN "candidate" ELSE "project"
\* A variant that runs both kinds with the candidates' cluster count.
NClustersCandidateOnly(k) == CandidateNClusters
NClusters(k) == IF k = "project" THEN ProjectNClusters ELSE CandidateNClusters
MaxId(k) == IF k = "project" THEN MaxProjects ELSE MaxCandidates
Handlers == 1..NumHandlers

None == <<>>
Some(x) == <<x>>
ZeroVec == <<0, 0>>

\* The vectors a mutation's skill list can average to.
SkillVecs == {<<0, 0>>, <<2, 1>>}

\* What an update mutation sends: (status, skills), None for a field left
\* out of the input.
UpdateInputs ==
    {<<None, Some(<<0, 0>>)>>, <<Some(FALSE), None>>,
     <<Some(TRUE), Some(<<2, 1>>)>>}

\* The rows a mutation addresses and the entities a ranking request is
\* made for.
TargetIds(k) == {1, NClusters(k)}
QueryIds(k) == {1, 4, 5, MaxId(k)}

\* The stored vector of the i-th row of the initial database.
InitVec(i) ==
    CASE i % 10 = 1 -> <<1, 0>>
      [] i % 10 = 2 -> <<0, 1>>
      [] i % 10 = 3 -> <<1, 1>>
      [] i % 10 = 4 -> <<1, 3>>
      [] i % 10 = 5 -> <<1, 2>>
      [] i % 10 = 6 -> <<1, 0>>
      [] i % 10 = 7 -> <<3, 1>>
      [] i % 10 = 8 -> <<2, 1>>
      [] i % 10 = 9 -> <<1, 4>>
      [] OTHER      -> <<0, 1>>

VARIABLES
    db,         \* db[k][i]: the row of entity i of kind k
    nextId,     \* nextId[k]: the autoincrement primary key of kind k
    settings,   \* settings[k]: the three globals of kind k
    hs,         \* hs[h]: the coroutine of handler h
    mutations,  \* number of mutations started
    settled,    \* settled[k]: the last change of kind k was committed by a
                \* mutation that has returned, and none is in flight
    builtFrom,  \* builtFrom[k]: the vector list of the build that published
                \* the member lists of kind k
    ret,        \* what the last step returned to its caller, if anything
    focus,      \* the kind whose store and index this run exercises
    ft_model,   \* settings.ft_model: 0 is None, n the model object that the
                \* n-th call of load_fasttext_model loaded
    loadCalls,  \* number of calls of load_fasttext_model
    preprocess_call,  \* a call of preprocess_skillsets: its argument and,
                      \* once it has returned, its result
    import_run        \* a run of conn.py's import_csv: its position, its
                      \* locals and the projects added to its session

\* The variables no request handler of the server changes.
scripts == <<preprocess_call, import_run>>

vars == <<db, nextId, settings, hs, mutations, settled, builtFrom, ret,
          focus, ft_model, loadCalls, preprocess_call, import_run>>

AbsentRow == [present |-> FALSE, eligible |-> FALSE, vec |-> None]
\* latest: no change of the handler's kind was committed after the
\* handler's own commit (a mutation) or since the handler started in a
\* settled store (a ranking request).  gone: the entities whose delete
\* mutation had returned when the ranking request started.
\* ranked: the list the engine returned to a listing resolver.
IdleHandler == [op |-> "none", kind |-> "project", pc |-> "idle", id |-> 0,
                q |-> None, corpus |-> <<>>, latest |-> FALSE, gone |-> {},
                ranked |-> <<>>]
\* The task asyncio.create_task(startup()) before its first step.
StartupHandler == [IdleHandler EXCEPT !.op = "startup", !.pc = "boot"]
\* status of a mutation: "ok" (success=True), "refused" (nothing found to
\* change, success=False), "error" (an exception after the commit, caught
\* and answered success=False).  status of a ranking request: "ok" (a
\* ranked list), "not_found" (unknown query entity), "build_error" (the
\* cluster call raised), "rank_error" (the ranking raised).
\* latest and gone are those of the handler that returns.
NoRet == [op |-> "none", kind |-> "project", status |-> "none", id |-> 0,
          q |-> None, result |-> <<>>, latest |-> FALSE, gone |-> {},
          ranked |-> <<>>]
MutationRet(op, k, status, id) ==
    [NoRet EXCEPT !.op = op, !.kind = k, !.status = status, !.id = id]
RankRet(k, status, handler, result) ==
    [op |-> "rank", kind |-> k, status |-> status, id |-> handler.id,
     q |-> handler.q, result |-> result, latest |-> handler.latest,
     gone |-> handler.gone, ranked |-> <<>>]
\* The end of the startup task: "ok", or "error" for an exception, which
\* ends the task and nothing else.
StartupRet(status) == [NoRet EXCEPT !.op = "startup", !.status = status]
\* What a listing resolver returns: the hydrated records in result, the
\* engine's list they were made from in ranked.
ListingRet(k, id, ranked, records) ==
    [NoRet EXCEPT !.op = "listing", !.kind = k, !.status = "ok", !.id = id,
                  !.result = records, !.ranked = ranked]
EmptySettings == [clusters |-> None, vectors |-> None, centroids |-> None]

\* ------------------------------------------------------------ similarity
Dot(a, b) == a[1] * b[1] + a[2] * b[2]

\* sklearn's cosine_similarity, as the fixed-point value of its square: an
\* order-preserving image of the cosine on vectors without negative
\* components.  A zero vector normalises to itself, so its similarity is 0.
CosineSimilarity(a, b) ==
    IF Dot(a, a) = 0 \/ Dot(b, b) = 0 THEN 0
    ELSE (Dot(a, b) * Dot(a, b) * 10000) \div (Dot(a, a) * Dot(b, b))

\* ------------------------------------------------------------------ store
Eligible(d, k) == {i \in DOMAIN d[k] : d[k][i].present /\ d[k][i].eligible}

\* A variant without the WHERE clause: every row is fetched.
RECURSIVE RowsFromUnfiltered(_, _, _)
RowsFromUnfiltered(d, k, i) ==
    IF i > Len(d[k]) THEN <<>>
    ELSE IF d[k][i].present
         THEN <<<<IF d[k][i].vec = None THEN ZeroVec ELSE d[k][i].vec, i>>>>
              \o RowsFromUnfiltered(d, k, i + 1)
         ELSE RowsFromUnfiltered(d, k, i + 1)

RECURSIVE RowsFrom(_, _, _)
RowsFrom(d, k, i) ==
    IF i > Len(d[k]) THEN <<>>
    ELSE IF d[k][i].present /\ d[k][i].eligible
         THEN <<<<IF d[k][i].vec = None THEN ZeroVec ELSE d[k][i].vec, i>>>>
              \o RowsFrom(d, k, i + 1)
         ELSE RowsFrom(d, k, i + 1)

\* get_projects_skillsets decodes every stored vector; json.loads(None)
\* raises TypeError.  get_user_skillsets substitutes zeros.
FetchRaises(d, k) ==
    k = "project" /\ \E i \in Eligible(d, k) : d[k][i].vec = None

FetchCorpus(d, k) == RowsFrom(d, k, 1)

Ids(vectors) == {vectors[i][2] : i \in DOMAIN vectors}

\* ----------------------------------------------------------------- k-means
RECURSIVE DistinctVecs(_, _)
DistinctVecs(vectors, seen) ==
    IF vectors = <<>> THEN seen
    ELSE LET v == Head(vectors)[1]
         IN  DistinctVecs(Tail(vectors),
                          IF \E j \in DOMAIN seen : seen[j] = v
                          THEN seen ELSE Append(seen, v))

PositionOf(v, seq) == CHOOSE j \in DOMAIN seq : seq[j] = v

Min(a, b) == IF a < b THEN a ELSE b

\* KMeans(n_clusters, random_state=0).fit(X) raises ValueError when X has
\* fewer samples than clusters.
KMeansRaises(vectors, n_clusters) == Len(vectors) < n_clusters

\* kmeans.labels_: one label in 0..n_clusters-1 per sample.  The seeded run
\* is a fixed function of X; the model fixes one that meets KMeans'
\* contract: equal samples share a label, the distinct samples take the
\* labels in the order they first occur, and when there are more distinct
\* samples than clusters the surplus joins the last cluster.
KMeansLabels(vectors, n_clusters) ==
    LET dv == DistinctVecs(vectors, <<>>)
    IN  [i \in DOMAIN vectors |->
            Min(PositionOf(vectors[i][1], dv) - 1, n_clusters - 1)]

RECURSIVE SumVecs(_, _, _)
SumVecs(vectors, members, acc) ==
    IF members = <<>> THEN acc
    ELSE LET v == vectors[Head(members) + 1][1]
         IN  SumVecs(vectors, Tail(members), <<acc[1] + v[1], acc[2] + v[2]>>)

\* The samples (0-based, in enumerate order) that carry label c.
RECURSIVE MembersOf(_, _, _)
MembersOf(labels, c, i) ==
    IF i > Len(labels) THEN <<>>
    ELSE IF labels[i] = c THEN <<i - 1>> \o MembersOf(labels, c, i + 1)
         ELSE MembersOf(labels, c, i + 1)

\* A variant in which the n_clusters lists are one shared list, so every
\* list receives every index.
BuildClustersAliased(labels, n_clusters) ==
    [c \in 1..n_clusters |-> [i \in 1..Len(labels) |-> i - 1]]

\* The member lists: [[] for _ in range(n_clusters)], then
\* clusters[label].append(i) for i, label in enumerate(labels_).
BuildClusters(labels, n_clusters) ==
    [c \in 1..n_clusters |-> MembersOf(labels, c - 1, 1)]

\* kmeans.cluster_centers_: the mean of a cluster's members, kept as their
\* sum (the cosine does not see the scale).  The centre of a cluster that
\* ends without members is a copy of sample 0, which k-means++ draws when
\* every sample already coincides with a centre.
KMeansCentroids(vectors, clusters) ==
    [c \in DOMAIN clusters |->
        IF clusters[c] = <<>> THEN vectors[1][1]
        ELSE SumVecs(vectors, clusters[c], ZeroVec)]

\* ----------------------------------------------------------------- ranking
\* A variant that returns the last index of the maximum.
ArgMaxLast(sims) ==
    (CHOOSE c \in DOMAIN sims :
        /\ \A d \in DOMAIN sims : sims[d] <= sims[c]
        /\ \A d \in DOMAIN sims : d > c => sims[d] < sims[c]) - 1

\* np.argmax: the first index (0-based) of the maximum.
ArgMax(sims) ==
    (CHOOSE c \in DOMAIN sims :
        /\ \A d \in DOMAIN sims : sims[d] <= sims[c]
        /\ \A d \in DOMAIN sims : d < c => sims[d] < sims[c]) - 1

\* A variant that sorts without reverse=True.
RECURSIVE InsertByScoreAscending(_, _)
InsertByScoreAscending(sorted, x) ==
    IF sorted = <<>> THEN <<x>>
    ELSE IF Head(sorted)[2] <= x[2]
         THEN <<Head(sorted)>> \o InsertByScoreAscending(Tail(sorted), x)
         ELSE <<x>> \o sorted

\* sorted(ranked, key=lambda x: x[1], reverse=True): stable, so pairs of
\* equal score keep their order.
RECURSIVE InsertByScore(_, _)
InsertByScore(sorted, x) ==
    IF sorted = <<>> THEN <<x>>
    ELSE IF Head(sorted)[2] >= x[2]
         THEN <<Head(sorted)>> \o InsertByScore(Tail(sorted), x)
         ELSE <<x>> \o sorted

RECURSIVE SortedByScore(_, _)
SortedByScore(pairs, acc) ==
    IF pairs = <<>> THEN acc
    ELSE SortedByScore(Tail(pairs), InsertByScore(acc, Head(pairs)))

ClosestCluster(q, centroids) ==
    ArgMax([c \in DOMAIN centroids |-> CosineSimilarity(q, centroids[c])])

\* The body of get_ranked_projects / get_ranked_candidates after the
\* cluster call, on the globals s of the target kind:
\*   centroids None: iterating None raises TypeError;
\*   a member index beyond the vector list raises IndexError;
\*   cosine_similarity on an empty member list raises ValueError.
RankRaises(q, s) ==
    \/ s.centroids = None
    \/ LET members == s.clusters[1][ClosestCluster(q, s.centroids[1]) + 1]
       IN  \/ members = <<>>
           \/ \E j \in DOMAIN members : members[j] + 1 > Len(s.vectors[1])

\* A variant that scores the whole vector list instead of the members of
\* the closest cluster.
RankedPairsWholeStore(q, s) ==
    [j \in DOMAIN s.vectors[1] |->
        <<s.vectors[1][j][2], CosineSimilarity(q, s.vectors[1][j][1])>>]

RankedPairs(q, s) ==
    LET members == s.clusters[1][ClosestCluster(q, s.centroids[1]) + 1]
        chosen  == [j \in DOMAIN members |-> s.vectors[1][members[j] + 1]]
    IN  [j \in DOMAIN chosen |->
            <<chosen[j][2], CosineSimilarity(q, chosen[j][1])>>]

Ranked(q, s) == SortedByScore(RankedPairs(q, s), <<>>)

RankReturn(k, handler, s) ==
    IF RankRaises(handler.q, s) THEN RankRet(k, "rank_error", handler, <<>>)
    ELSE RankRet(k, "ok", handler, Ranked(handler.q, s))

\* -------------------------------------------------------- embedding model
\* What a call of load_fasttext_model meets: the download and the load
\* succeed, download_model raises, or fasttext.load_model raises.
LoadOutcomes == {"loaded", "download_error", "load_error"}

\* load_fasttext_model raises: the download is attempted on every call,
\* the load only while ft_model is None.
LoadRaises(m, outcome) ==
    \/ outcome = "download_error"
    \/ m = 0 /\ outcome = "load_error"

\* A variant without the None check: every call that does not raise loads.
LoadFasttextModelUnguarded(m, n, outcome) ==
    IF outcome = "loaded" THEN n ELSE m

\* settings.ft_model after the n-th call of load_fasttext_model met
\* outcome.
LoadFasttextModel(m, n, outcome) ==
    IF outcome = "download_error" THEN m
    ELSE IF m = 0
         THEN IF outcome = "loaded" THEN n ELSE m
         ELSE m

\* settings.ft_model is None: ft_model.get_dimension() raises
\* AttributeError.
ModelMissing == ft_model = 0

\* ------------------------------------------------------------------ state
\* The stored vector of row i of the kind a run only reads its queries
\* from: one job seeker has no skill vector yet, one posting was created
\* with an empty skill list.
QueryRowVec(k, i) ==
    IF i = 4 THEN IF k = "candidate" THEN None ELSE ZeroVec
    ELSE InitVec(i)

InitServer ==
    \E f \in Kinds : \E nf \in (NClusters(f) - 1)..MaxId(f) :
        LET n == [k \in Kinds |-> IF k = f THEN nf ELSE MaxId(k) - 1]
        IN  /\ focus = f
            /\ db = [k \in Kinds |-> [i \in 1..MaxId(k) |->
                        IF i <= n[k]
                        THEN [present |-> TRUE, eligible |-> TRUE,
                              vec |-> IF k = f THEN InitVec(i)
                                      ELSE QueryRowVec(k, i)]
                        ELSE AbsentRow]]
            /\ nextId = [k \in Kinds |-> n[k] + 1]
            /\ settings = [k \in Kinds |-> EmptySettings]
            /\ hs = [h \in Handlers |->
                        IF h = 1 THEN StartupHandler ELSE IdleHandler]
            /\ ft_model = 0
            /\ loadCalls = 0
            /\ mutations = 0
            /\ settled = [k \in Kinds |-> FALSE]
            /\ builtFrom = [k \in Kinds |-> <<>>]
            /\ ret = NoRet

\* No call of preprocess_skillsets under way, import_csv not running.
NoCall == [skillsets |-> <<>>, returned |-> None]
NoImport == [pc |-> "idle", reader |-> <<>>, skillset_size |-> None,
             skills_processed |-> None, project_vector |-> None,
             added |-> <<>>, committed |-> FALSE]

\* The application after construction.
Init ==
    /\ InitServer
    /\ preprocess_call = NoCall
    /\ import_run = NoImport

\* A request is served by the first idle handler, and none before the
\* startup task has run its first, blocking part.
Free(h) ==
    /\ hs[h].pc = "idle"
    /\ \A g \in Handlers : hs[g].pc # "boot"
    /\ \A g \in Handlers : g < h => hs[g].pc # "idle"

\* The entities of kind k whose delete mutation has committed and returned:
\* ids are never reused, so an id below the autoincrement counter without a
\* row was deleted.
DeletedIds(k) ==
    {i \in 1..(nextId[k] - 1) :
        /\ ~db[k][i].present
        /\ ~\E h \in Handlers :
               hs[h].op = "delete" /\ hs[h].kind = k /\ hs[h].id = i}

IsMutation(op) == op \in {"create", "update", "delete"}

\* Another handler than h is between the commit and the return of a
\* mutation of kind k.
OtherMutationInFlight(h, k) ==
    \E g \in Handlers \ {h} : IsMutation(hs[g].op) /\ hs[g].kind = k

MutationReturn(h, status) ==
    MutationRet(hs[h].op, hs[h].kind, status, hs[h].id)

\* A handler leaves through its return statement or through an exception:
\* a mutation answers success=True / success=False (every exception after
\* the commit is caught and turned into success=False), a ranking request
\* answers its ranked list or fails.
Return(h, r) ==
    /\ ret' = r
    /\ hs' = [hs EXCEPT ![h] = IdleHandler]
    /\ settled' = IF IsMutation(hs[h].op)
                  THEN [settled EXCEPT ![hs[h].kind] =
                            /\ hs[h].latest
                            /\ ~OtherMutationInFlight(h, hs[h].kind)]
                  ELSE settled

\* A mutation that found nothing to change returns success=False at once.
Refuse(op, k, id) ==
    /\ ret' = MutationRet(op, k, "refused", id)
    /\ UNCHANGED <<db, nextId, settings, hs, mutations, settled, builtFrom,
                   focus>>

\* A mutation that computes a skill vector while ft_model is None raises
\* AttributeError before its commit: nothing is stored.
ModelError(op, k, id) ==
    /\ ret' = MutationRet(op, k, "model_error", id)
    /\ UNCHANGED <<db, nextId, settings, hs, mutations, settled, builtFrom,
                   focus>>

Overtaken(handler, k) ==
    IF handler.kind = k THEN [handler EXCEPT !.latest = FALSE] ELSE handler

\* session.commit() of a mutation of kind k, then the call
\* cluster_projects(refresh=True) / cluster_candidates(refresh=True) up to
\* its await of the corpus query.
CommitThenRebuild(h, op, k, id, newDb) ==
    /\ db' = newDb
    /\ hs' = [g \in Handlers |->
                IF g = h
                THEN [IdleHandler EXCEPT !.op = op, !.kind = k,
                                         !.pc = "fetching", !.id = id,
                                         !.latest = TRUE]
                ELSE Overtaken(hs[g], k)]
    /\ settled' = [settled EXCEPT ![k] = FALSE]
    /\ mutations' = mutations + 1
    /\ ret' = NoRet
    /\ UNCHANGED <<settings, builtFrom, focus>>

\* ---------------------------------------------------------------- mutations
CreateProject(h, companyExists, status, vec) ==
    /\ Free(h)
    /\ focus = "project"
    /\ mutations < MaxMutations
    /\ nextId["project"] <= MaxProjects
    /\ UNCHANGED <<ft_model, loadCalls, scripts>>
    /\ IF ~companyExists
       THEN /\ Refuse("create", "project", 0)
       ELSE IF ModelMissing
       THEN ModelError("create", "project", 0)
       ELSE LET id == nextId["project"]
            IN  /\ nextId' = [nextId EXCEPT !["project"] = id + 1]
                /\ CommitThenRebuild(h, "create", "project", id,
                       [db EXCEPT !["project"][id] =
                           [present |-> TRUE, eligible |-> status,
                            vec |-> vec]])

UpdatedRow(row, status, vec) ==
    [present |-> TRUE,
     eligible |-> IF status = None THEN row.eligible ELSE status[1],
     vec |-> IF vec = None THEN row.vec ELSE vec[1]]

UpdateProject(h, id, status, vec) ==
    /\ Free(h)
    /\ focus = "project"
    /\ mutations < MaxMutations
    /\ UNCHANGED <<ft_model, loadCalls, scripts>>
    /\ IF ~db["project"][id].present
       THEN Refuse("update", "project", id)
       ELSE IF vec # None /\ ModelMissing
       THEN ModelError("update", "project", id)
       ELSE /\ CommitThenRebuild(h, "update", "project", id,
                   [db EXCEPT !["project"][id] =
                       UpdatedRow(db["project"][id], status, vec)])
            /\ UNCHANGED nextId

DeleteProject(h, id) ==
    /\ Free(h)
    /\ focus = "project"
    /\ mutations < MaxMutations
    /\ UNCHANGED <<ft_model, loadCalls, scripts>>
    /\ IF ~db["project"][id].present
       THEN Refuse("delete", "project", id)
       ELSE /\ CommitThenRebuild(h, "delete", "project", id,
                   [db EXCEPT !["project"][id] = AbsentRow])
            /\ UNCHANGED nextId

\* create_job_seeker commits the row (open for work by default, no skill
\* vector) and returns; it calls no rebuild.
CreateJobSeeker(h, nameTaken) ==
    /\ Free(h)
    /\ focus = "candidate"
    /\ mutations < MaxMutations
    /\ nextId["candidate"] <= MaxCandidates
    /\ UNCHANGED <<ft_model, loadCalls, scripts>>
    /\ IF nameTaken
       THEN Refuse("create", "candidate", 0)
       ELSE LET id == nextId["candidate"]
            IN  /\ db' = [db EXCEPT !["candidate"][id] =
                             [present |-> TRUE, eligible |-> TRUE,
                              vec |-> None]]
                /\ nextId' = [nextId EXCEPT !["candidate"] = id + 1]
                /\ settled' = [settled EXCEPT !["candidate"] = FALSE]
                /\ mutations' = mutations + 1
                /\ ret' = MutationRet("create", "candidate", "ok", id)
                /\ hs' = [g \in Handlers |-> Overtaken(hs[g], "candidate")]
                /\ UNCHANGED <<settings, builtFrom, focus>>

UpdateJobSeeker(h, id, status, vec) ==
    /\ Free(h)
    /\ focus = "candidate"
    /\ mutations < MaxMutations
    /\ UNCHANGED <<ft_model, loadCalls, scripts>>
    /\ IF ~db["candidate"][id].present
       THEN Refuse("update", "candidate", id)
       ELSE IF vec # None /\ ModelMissing
       THEN ModelError("update", "candidate", id)
       ELSE /\ CommitThenRebuild(h, "update", "candidate", id,
                   [db EXCEPT !["candidate"][id] =
                       UpdatedRow(db["candidate"][id], status, vec)])
            /\ UNCHANGED nextId

DeleteJobSeeker(h, id) ==
    /\ Free(h)
    /\ focus = "candidate"
    /\ mutations < MaxMutations
    /\ UNCHANGED <<ft_model, loadCalls, scripts>>
    /\ IF ~db["candidate"][id].present
       THEN Refuse("delete", "candidate", id)
       ELSE /\ CommitThenRebuild(h, "delete", "candidate", id,
                   [db EXCEPT !["candidate"][id] = AbsentRow])
            /\ UNCHANGED nextId

\* ------------------------------------------------------------------ startup
\* The first part of startup(), which runs without suspending: init(),
\* load_fasttext_model(), then cluster_projects() up to its await of the
\* corpus query.  An exception ends the task; the application goes on.
Boot(h, outcome) ==
    /\ hs[h].pc = "boot"
    /\ loadCalls' = loadCalls + 1
    /\ ft_model' = LoadFasttextModel(ft_model, loadCalls + 1, outcome)
    /\ IF LoadRaises(ft_model, outcome)
       THEN /\ ret' = StartupRet("error")
            /\ hs' = [hs EXCEPT ![h] = IdleHandler]
       ELSE /\ ret' = NoRet
            /\ hs' = [hs EXCEPT ![h].kind = "project", ![h].pc = "fetching"]
    /\ UNCHANGED <<db, nextId, settings, mutations, settled, builtFrom,
                   focus, scripts>>

\* -------------------------------------------------------------------- build
\* What handler h answers when its cluster call raises.
BuildFailed(h) ==
    IF IsMutation(hs[h].op) THEN MutationReturn(h, "error")
    ELSE IF hs[h].op = "startup" THEN StartupRet("error")
    ELSE RankRet(hs[h].kind, "build_error", hs[h], <<>>)

\* The database answers the corpus query of cluster_projects /
\* cluster_candidates.
Fetch(h) ==
    /\ hs[h].pc = "fetching"
    /\ IF \/ FetchRaises(db, hs[h].kind)
          \/ hs[h].kind = "candidate" /\ ModelMissing
       THEN /\ Return(h, BuildFailed(h))
            /\ UNCHANGED <<db, nextId, settings, mutations, builtFrom>>
       ELSE /\ hs' = [hs EXCEPT ![h].pc = "fetched",
                                ![h].corpus = FetchCorpus(db, hs[h].kind)]
            /\ ret' = NoRet
            /\ UNCHANGED <<db, nextId, settings, mutations, settled,
                           builtFrom>>
    /\ UNCHANGED <<focus, ft_model, loadCalls, scripts>>

\* The build raises: KMeans on fewer samples than clusters.  Only
\* cluster_candidates returns before it for a small corpus.
BuildRaises(k, corpus) ==
    /\ ~(k = "candidate" /\ Len(corpus) < MinCandidates)
    /\ KMeansRaises(corpus, NClusters(k))

BuiltSettings(k, corpus) ==
    LET clusters == BuildClusters(KMeansLabels(corpus, NClusters(k)),
                                  NClusters(k))
    IN  [vectors |-> Some(corpus),
         centroids |-> Some(KMeansCentroids(corpus, clusters)),
         clusters |-> Some(clusters)]

\* A variant that drops the snapshot when the build cannot complete.
AfterBuildResets(k, s, corpus) ==
    IF \/ k = "candidate" /\ Len(corpus) < MinCandidates
       \/ KMeansRaises(corpus, NClusters(k))
    THEN EmptySettings
    ELSE BuiltSettings(k, corpus)

\* A variant in which cluster_candidates has no early return: it assigns
\* the vector list and runs k-means like cluster_projects.
AfterBuildNoEarlyReturn(k, s, corpus) ==
    IF KMeansRaises(corpus, NClusters(k))
    THEN [s EXCEPT !.vectors = Some(corpus)]
    ELSE BuiltSettings(k, corpus)

\* The globals of kind k after the rest of cluster_projects /
\* cluster_candidates has run on the fetched corpus.
AfterBuild(k, s, corpus) ==
    IF k = "candidate" /\ Len(corpus) < MinCandidates THEN s
    ELSE IF KMeansRaises(corpus, NClusters(k))
         THEN [s EXCEPT !.vectors = Some(corpus)]
         ELSE BuiltSettings(k, corpus)

BuildPublishes(k, corpus) ==
    /\ ~(k = "candidate" /\ Len(corpus) < MinCandidates)
    /\ ~KMeansRaises(corpus, NClusters(k))

\* A variant with one set of globals for both kinds.
AssignedShared(globals, k, s) == [j \in Kinds |-> s]
\* The module globals after a build of kind k has left s in its three.
Assigned(globals, k, s) == [globals EXCEPT ![k] = s]

\* The engine hands its result r to the listing resolver, which goes on to
\* its own query; an exception leaves the resolver.
RankContinue(h, r) ==
    /\ ret' = r
    /\ hs' = [hs EXCEPT ![h] =
                IF r.status = "ok"
                THEN [IdleHandler EXCEPT !.op = "rank", !.kind = hs[h].kind,
                                         !.pc = "hydrating",
                                         !.id = hs[h].id,
                                         !.ranked = r.result]
                ELSE IdleHandler]
    /\ UNCHANGED settled

\* startup() after cluster_projects() has returned: cluster_candidates(),
\* which builds unless member lists are in place; after it the task ends.
StartupContinue(h) ==
    IF hs[h].kind = "project" /\ settings["candidate"].clusters = None
    THEN /\ hs' = [hs EXCEPT ![h].kind = "candidate", ![h].pc = "fetching",
                             ![h].corpus = <<>>]
         /\ ret' = NoRet
         /\ UNCHANGED settled
    ELSE Return(h, StartupRet("ok"))

\* The coroutine resumes with the corpus and runs to its next await or its
\* return: the rest of the build, then (a ranking request) the ranking.
Publish(h) ==
    /\ hs[h].pc = "fetched"
    /\ LET k == hs[h].kind
           corpus == hs[h].corpus
           s == AfterBuild(k, settings[k], corpus)
       IN  /\ settings' = Assigned(settings, k, s)
           /\ builtFrom' = IF BuildPublishes(k, corpus)
                           THEN [builtFrom EXCEPT ![k] = corpus]
                           ELSE builtFrom
           /\ IF BuildRaises(k, corpus) THEN Return(h, BuildFailed(h))
              ELSE IF IsMutation(hs[h].op)
              THEN Return(h, MutationReturn(h, "ok"))
              ELSE IF hs[h].op = "startup" THEN StartupContinue(h)
              ELSE RankContinue(h, RankReturn(k, hs[h], s))
    /\ UNCHANGED <<db, nextId, mutations, focus, ft_model, loadCalls, scripts>>

\* ------------------------------------------------------------------ ranking
\* A variant that reads an unknown query entity like one without a stored
\* vector.
QueryStatusLenient(k, row) ==
    IF ModelMissing /\ (k = "candidate" \/ row.vec = None)
    THEN "model_error"
    ELSE "ok"

\* get_user_skillsets(seeker_id) / get_project_skillset(project_id): .one()
\* raises NoResultFound for an unknown id; get_project_skillset asks the
\* model for its dimension on every call, get_user_skillsets only for a
\* NULL vector.
QueryStatus(k, row) ==
    IF ~row.present THEN "not_found"
    ELSE IF ModelMissing /\ (k = "candidate" \/ row.vec = None)
         THEN "model_error"
         ELSE "ok"

\* get_projects_recommendations / get_candidates_recommendations: the query
\* entity's vector is read from the table of the other kind; a NULL vector
\* reads as zeros.
RankStart(h, k, qid) ==
    /\ Free(h)
    /\ focus = k
    /\ LET row == db[Other(k)][qid]
           status == QueryStatus(k, row)
       IN  IF status # "ok"
           THEN /\ ret' = RankRet(k, status,
                                  [IdleHandler EXCEPT !.id = qid], <<>>)
                /\ hs' = hs
           ELSE /\ hs' = [hs EXCEPT ![h] =
                           [IdleHandler EXCEPT
                               !.op = "rank", !.kind = k, !.pc = "ranking",
                               !.id = qid, !.latest = settled[k],
                               !.gone = DeletedIds(k),
                               !.q = IF row.vec = None THEN ZeroVec
                                     ELSE row.vec]]
                /\ ret' = NoRet
    /\ UNCHANGED <<db, nextId, settings, mutations, settled, builtFrom,
                   focus, ft_model, loadCalls, scripts>>

\* A variant whose cluster call always rebuilds, as with refresh=True.
RankResumeRefreshing(h) ==
    /\ hs[h].pc = "ranking"
    /\ hs' = [hs EXCEPT ![h].pc = "fetching"]
    /\ ret' = NoRet
    /\ UNCHANGED <<db, nextId, settings, mutations, settled, builtFrom, focus,
                   ft_model, loadCalls, scripts>>

\* get_ranked_projects / get_ranked_candidates: cluster (no refresh), then
\* rank.  With member lists in place the cluster call does not suspend.
RankResume(h) ==
    /\ hs[h].pc = "ranking"
    /\ LET k == hs[h].kind
       IN  IF settings[k].clusters # None
           THEN RankContinue(h, RankReturn(k, hs[h], settings[k]))
           ELSE /\ hs' = [hs EXCEPT ![h].pc = "fetching"]
                /\ ret' = NoRet
                /\ UNCHANGED settled
    /\ UNCHANGED <<db, nextId, settings, mutations, builtFrom, focus,
                   ft_model, loadCalls, scripts>>

\* ---------------------------------------------------------------- hydration
\* A variant without the slice [:10].
ListingIdsUncut(k, ranked) == {ranked[j][1] : j \in DOMAIN ranked}

\* The ids a listing resolver asks the database for: all of them
\* (project_listing), the first ten (recommended_job_seeker_listing).
ListingIds(k, ranked) ==
    {ranked[j][1] : j \in IF k = "candidate"
                          THEN 1..Min(MaxListing, Len(ranked))
                          ELSE DOMAIN ranked}

\* A variant that returns the rows in the order of the database answer,
\* which is the order of the primary key.
RECURSIVE OrderedRecordsByKey(_, _)
OrderedRecordsByKey(ranked, found) ==
    IF found = {} THEN <<>>
    ELSE LET i == CHOOSE x \in found : \A y \in found : x <= y
             j == CHOOSE x \in DOMAIN ranked : ranked[x][1] = i
         IN  <<ranked[j]>> \o OrderedRecordsByKey(ranked, found \ {i})

\* The loop over the ranked pairs: a record for every pair whose row the
\* query found, with the pair's score attached.
OrderedRecords(ranked, found) ==
    LET Found(pair) == pair[1] \in found
    IN  SelectSeq(ranked, Found)

\* The listing resolver resumes with the rows of its query and returns the
\* records.
Hydrate(h) ==
    /\ hs[h].pc = "hydrating"
    /\ LET k == hs[h].kind
           found == {i \in ListingIds(k, hs[h].ranked) : db[k][i].present}
       IN  ret' = ListingRet(k, hs[h].id, hs[h].ranked,
                             OrderedRecords(hs[h].ranked, found))
    /\ hs' = [hs EXCEPT ![h] = IdleHandler]
    /\ UNCHANGED <<db, nextId, settings, mutations, settled, builtFrom,
                   focus, ft_model, loadCalls, scripts>>

Next ==
    \E h \in Handlers :
        \/ \E o \in LoadOutcomes : Boot(h, o)
        \/ \E c \in BOOLEAN, st \in BOOLEAN, v \in SkillVecs :
               CreateProject(h, c, st, v)
        \/ \E id \in TargetIds("project"), in \in UpdateInputs :
               UpdateProject(h, id, in[1], in[2])
        \/ \E id \in TargetIds("project") : DeleteProject(h, id)
        \/ \E t \in BOOLEAN : CreateJobSeeker(h, t)
        \/ \E id \in TargetIds("candidate"), in \in UpdateInputs :
               UpdateJobSeeker(h, id, in[1], in[2])
        \/ \E id \in TargetIds("candidate") : DeleteJobSeeker(h, id)
        \/ Fetch(h)
        \/ Publish(h)
        \/ \E k \in Kinds : \E qid \in QueryIds(Other(k)) :
               RankStart(h, k, qid)
        \/ RankResume(h)
        \/ Hydrate(h)

Spec == Init /\ [][Next]_vars

\* ------------------------------------------- calls of load_fasttext_model
\* Any caller calls load_fasttext_model once more (the startup task, the
\* import script of conn.py).
LoadCall(outcome) ==
    /\ loadCalls < MaxLoadCalls
    /\ loadCalls' = loadCalls + 1
    /\ ft_model' = LoadFasttextModel(ft_model, loadCalls + 1, outcome)
    /\ ret' = [NoRet EXCEPT !.op = "load",
                            !.status = IF LoadRaises(ft_model, outcome)
                                       THEN outcome ELSE "ok"]
    /\ UNCHANGED <<db, nextId, settings, hs, mutations, settled, builtFrom,
                   focus, scripts>>

NextLoad == \E o \in LoadOutcomes : LoadCall(o)

SpecLoad == Init /\ [][NextLoad]_vars

\* ----------------------------------------------------------------- strings
\* A Python str is the sequence of its characters.  The characters stand
\* for the classes the normalizer tells apart: an upper-case letter, the
\* plus sign, a character outside [a-zA-Z\s+], and whitespace.
Chars == {"B", "+", "1", " "}

LowercaseLetters == {"a", "b"}
UppercaseLetters == {"A", "B"}

\* str.isspace, the class \s of re, the separators of str.split().
IsSpace(c) == c \in {" ", "\n"}

\* A variant of str.lower() that leaves every character as it is.
LowerUnchanged(c) == c

\* str.lower() on one character.
Lower(c) ==
    CASE c = "A" -> "a"
      [] c = "B" -> "b"
      [] OTHER   -> c

StrLower(s) == [i \in DOMAIN s |-> Lower(s[i])]

RECURSIVE LStrip(_)
LStrip(s) ==
    IF s # <<>> /\ IsSpace(Head(s)) THEN LStrip(Tail(s)) ELSE s

RECURSIVE RStrip(_)
RStrip(s) ==
    IF s # <<>> /\ IsSpace(s[Len(s)])
    THEN RStrip(SubSeq(s, 1, Len(s) - 1))
    ELSE s

\* str.strip()
Strip(s) == RStrip(LStrip(s))

\* The characters the class [^a-zA-Z\s+] does not match, which re.sub
\* therefore keeps.
RegexKeeps(c) ==
    \/ c \in LowercaseLetters \cup UppercaseLetters
    \/ IsSpace(c)
    \/ c = "+"

\* re.sub(r'[^a-zA-Z\s+]', '', s)
RegexSub(s) == SelectSeq(s, RegexKeeps)

\* str.split(): the maximal runs of characters that are not whitespace;
\* word is the run being read.
RECURSIVE Split(_, _)
Split(s, word) ==
    IF s = <<>> THEN IF word = <<>> THEN <<>> ELSE <<word>>
    ELSE IF IsSpace(Head(s))
         THEN (IF word = <<>> THEN <<>> ELSE <<word>>)
              \o Split(Tail(s), <<>>)
         ELSE Split(Tail(s), Append(word, Head(s)))

\* str.split(sep): the pieces between the separators, empty ones included;
\* the empty string gives one empty piece.
RECURSIVE SplitOn(_, _, _)
SplitOn(s, sep, piece) ==
    IF s = <<>> THEN <<piece>>
    ELSE IF Head(s) = sep
         THEN <<piece>> \o SplitOn(Tail(s), sep, <<>>)
         ELSE SplitOn(Tail(s), sep, Append(piece, Head(s)))

\* ------------------------------------------------------------- normalizer
\* An element of the argument of preprocess_skillsets: a str, or a list of
\* str.  isinstance(x, str) is x.isStr.
Str(s) == [isStr |-> TRUE, val |-> s]
List(l) == [isStr |-> FALSE, val |-> l]

\* re.sub(...,  skill.lower().strip()).split()
Cleaned(skill) == Split(RegexSub(Strip(StrLower(skill))), <<>>)

\* A variant that puts each list in front of the ones before it.
RECURSIVE FlattenedReversed(_)
FlattenedReversed(lists) ==
    IF lists = <<>> THEN <<>>
    ELSE FlattenedReversed(Tail(lists)) \o Head(lists)

\* [skill for skills in lists for skill in skills], and the effect of
\* preprocessed_skills += ... over the skills of one sub-list.
RECURSIVE Flattened(_)
Flattened(lists) ==
    IF lists = <<>> THEN <<>>
    ELSE Head(lists) \o Flattened(Tail(lists))

PreprocessSkillsets(skillsets) ==
    LET preprocessed_skillsets ==
            [i \in DOMAIN skillsets |->
                IF skillsets[i].isStr THEN Cleaned(skillsets[i].val)
                ELSE Flattened([j \in DOMAIN skillsets[i].val |->
                                   Cleaned(skillsets[i].val[j])])]
        user_skillset == \E i \in DOMAIN skillsets : skillsets[i].isStr
    IN  IF user_skillset THEN Flattened(preprocessed_skillsets)
        ELSE preprocessed_skillsets

\* --------------------------------------------- a call of the normalizer
MaxStrLen == 3
MaxListLen == 2

RECURSIVE SeqsUpTo(_, _)
SeqsUpTo(S, n) ==
    IF n = 0 THEN {<<>>}
    ELSE LET shorter == SeqsUpTo(S, n - 1)
         IN  shorter \cup {Append(s, x) : s \in shorter, x \in S}

\* Every str of at most MaxStrLen characters.
Strings == SeqsUpTo(Chars, MaxStrLen)

\* The skill names a sub-list is made of.
SkillNames ==
    {<<>>, <<" ">>, <<"1">>, <<"B", "+", "+">>, <<"B", " ", "B">>,
     <<" ", "1", "B">>}

\* The arguments of the call: a flat list of str, or a list of lists of
\* str.
FlatSkillsets ==
    {[i \in DOMAIN l |-> Str(l[i])] : l \in SeqsUpTo(Strings, MaxListLen)}
NestedSkillsets ==
    {[i \in DOMAIN l |-> List(l[i])] :
        l \in SeqsUpTo(SeqsUpTo(SkillNames, MaxListLen), MaxListLen)}

InitPreprocess ==
    /\ InitServer
    /\ \/ \E l \in FlatSkillsets :
              preprocess_call = [NoCall EXCEPT !.skillsets = l]
       \/ \E l \in NestedSkillsets :
              preprocess_call = [NoCall EXCEPT !.skillsets = l]
    /\ import_run = NoImport

Preprocess ==
    /\ preprocess_call.returned = None
    /\ preprocess_call' =
           [preprocess_call EXCEPT
               !.returned = Some(PreprocessSkillsets(preprocess_call.skillsets))]
    /\ UNCHANGED <<db, nextId, settings, hs, mutations, settled, builtFrom,
                   ret, focus, ft_model, loadCalls, import_run>>

SpecPreprocess == InitPreprocess /\ [][Preprocess]_vars

\* -------------------------------------------------------- vector synthesis
\* ft_model.get_dimension()
GetDimension == Len(ZeroVec)

\* np.zeros(n)
Zeros(n) == [i \in 1..n |-> 0]

\* ft_model.get_word_vector(token): a vector that is not zero and depends
\* on the token.
WordVector(token) ==
    <<Len(token), 1 + Cardinality({i \in DOMAIN token : token[i] = "+"})>>

\* np.mean([get_word_vector(skill) for skill in tokens], axis=0), kept as
\* the sum (the cosine does not see the scale).
RECURSIVE MeanVector(_)
MeanVector(tokens) ==
    IF tokens = <<>> THEN ZeroVec
    ELSE LET v == WordVector(Head(tokens))
             m == MeanVector(Tail(tokens))
         IN  <<v[1] + m[1], v[2] + m[2]>>

\* --------------------------------------------------------- conn.import_csv
MaxRows == 3

\* The skills column of a row of projects_list.csv: skill names, one per
\* line.
SkillCells ==
    {<<>>, <<"1">>, <<"B", "+", "\n", "B">>, <<"B", " ", "B">>}

Csvs == SeqsUpTo(SkillCells, MaxRows)

InitImport ==
    /\ InitServer
    /\ preprocess_call = NoCall
    /\ \E csv \in Csvs :
           import_run = [NoImport EXCEPT !.pc = "start", !.reader = csv]

\* import_csv up to its first row: settings.load_fasttext_model(), then the
\* file is opened.  An exception ends the script.
ImportStart(outcome) ==
    /\ import_run.pc = "start"
    /\ loadCalls' = loadCalls + 1
    /\ ft_model' = LoadFasttextModel(ft_model, loadCalls + 1, outcome)
    /\ import_run' = [import_run EXCEPT
                         !.pc = IF LoadRaises(ft_model, outcome)
                                THEN "raised" ELSE "rows"]
    /\ UNCHANGED <<db, nextId, settings, hs, mutations, settled, builtFrom,
                   ret, focus, preprocess_call>>

\* One pass of the loop over the rows.  skillset_size is assigned in the
\* branch of a non-empty skill list only: the other branch reads the value
\* an earlier row left, and raises UnboundLocalError when there is none.
ImportRow ==
    /\ import_run.pc = "rows"
    /\ import_run.reader # <<>>
    /\ LET skills == SplitOn(Head(import_run.reader), "\n", <<>>)
           skills_processed ==
               PreprocessSkillsets([i \in DOMAIN skills |-> Str(skills[i])])
           read == [import_run EXCEPT
                       !.reader = Tail(import_run.reader),
                       !.skills_processed = Some(skills_processed),
                       !.project_vector = None]
       IN  import_run' =
               IF Len(skills_processed) > 0
               THEN [read EXCEPT
                        !.skillset_size = Some(GetDimension),
                        !.project_vector =
                            Some(MeanVector(skills_processed)),
                        !.added = Append(import_run.added,
                                         MeanVector(skills_processed))]
               ELSE IF import_run.skillset_size = None
               THEN [read EXCEPT !.pc = "raised"]
               ELSE [read EXCEPT
                        !.project_vector =
                            Some(Zeros(import_run.skillset_size[1])),
                        !.added = Append(import_run.added,
                                         Zeros(import_run.skillset_size[1]))]
    /\ UNCHANGED <<db, nextId, settings, hs, mutations, settled, builtFrom,
                   ret, focus, ft_model, loadCalls, preprocess_call>>

\* After the last row: session.commit().
ImportCommit ==
    /\ import_run.pc = "rows"
    /\ import_run.reader = <<>>
    /\ import_run' = [import_run EXCEPT !.pc = "done", !.committed = TRUE]
    /\ UNCHANGED <<db, nextId, settings, hs, mutations, settled, builtFrom,
                   ret, focus, ft_model, loadCalls, preprocess_call>>

NextImport ==
    \/ \E o \in LoadOutcomes : ImportStart(o)
    \/ ImportRow
    \/ ImportCommit

SpecImport == InitImport /\ [][NextImport]_vars

\* ------------------------------------------- listings of a large cluster
MaxSeekers == 14

\* The stored vector of job seeker i of a table in which all but three job
\* seekers fall into one cluster, each a little further than the one
\* before from the skills of posting 5.
ListingVec(i) ==
    IF i <= 3 THEN InitVec(i)
    ELSE <<MaxSeekers + 1 - i, 2 * (MaxSeekers + 1 - i) + 1>>

\* The application after construction, with a larger job seeker table.
InitListing ==
    \E n \in (MaxSeekers - 2)..MaxSeekers :
        /\ focus = "candidate"
        /\ db = [k \in Kinds |->
                    IF k = "candidate"
                    THEN [i \in 1..MaxSeekers |->
                             IF i <= n
                             THEN [present |-> TRUE, eligible |-> TRUE,
                                   vec |-> ListingVec(i)]
                             ELSE AbsentRow]
                    ELSE [i \in 1..MaxProjects |->
                             IF i <= MaxProjects - 1
                             THEN [present |-> TRUE, eligible |-> TRUE,
                                   vec |-> QueryRowVec(k, i)]
                             ELSE AbsentRow]]
        /\ nextId = [k \in Kinds |->
                        IF k = "candidate" THEN n + 1 ELSE MaxProjects]
        /\ settings = [k \in Kinds |-> EmptySettings]
        /\ hs = [h \in Handlers |->
                    IF h = 1 THEN StartupHandler ELSE IdleHandler]
        /\ ft_model = 0
        /\ loadCalls = 0
        /\ mutations = 0
        /\ settled = [k \in Kinds |-> FALSE]
        /\ builtFrom = [k \in Kinds |-> <<>>]
        /\ ret = NoRet
        /\ preprocess_call = NoCall
        /\ import_run = NoImport

\* The requests that bear on recommended_job_seeker_listing.
NextListing ==
    \E h \in Handlers :
        \/ \E o \in LoadOutcomes : Boot(h, o)
        \/ \E id \in TargetIds("candidate") : DeleteJobSeeker(h, id)
        \/ Fetch(h)
        \/ Publish(h)
        \/ \E qid \in QueryIds("project") : RankStart(h, "candidate", qid)
        \/ RankResume(h)
        \/ Hydrate(h)

SpecListing == InitListing /\ [][NextListing]_vars

\* ================================================================== claims
SnapshotExists(k) == settings[k].clusters # None

\* A ranking request has just returned after reading the globals.
RankingRead == ret.op = "rank" /\ ret.status \in {"ok", "rank_error"}

ResultIds == {ret.result[j][1] : j \in DOMAIN ret.result}

InBuild(h) == hs[h].pc \in {"fetching", "fetched"}

\* C1: a ranking request that starts after a committed create, update or
\* delete mutation of its kind has returned, with no other mutation since,
\* ranks on a vector list whose entity ids are exactly the entities eligible
\* in the database.
C1_InvalidationCorrect ==
    (ret.op = "rank" /\ ret.status = "ok" /\ ret.latest)
        => Ids(settings[ret.kind].vectors[1]) = Eligible(db, ret.kind)

\* C2: no ranking request returns the id of an entity whose delete mutation
\* had returned when the request started.
C2_DeletedNeverReturned ==
    ret.op = "rank" => ResultIds \cap ret.gone = {}

\* C3: two handlers are never inside a build of the same kind (between the
\* start of the corpus fetch and the publication) at the same time.
C3_BuildsSerialized ==
    \A g, h \in Handlers :
        (g # h /\ InBuild(g) /\ InBuild(h)) => hs[g].kind # hs[h].kind

\* C4: a ranking request that reads member lists reads them together with
\* the vector list of the build that published them.
C4_ConsistentSnapshotRead ==
    (RankingRead /\ SnapshotExists(ret.kind))
        => settings[ret.kind].vectors = Some(builtFrom[ret.kind])

\* C5: with no snapshot and fewer than K eligible entities, a ranking
\* request for a known query entity succeeds and returns every eligible
\* entity exactly once.
C5_FallbackCorrect ==
    (/\ ret.op = "rank" /\ ret.status # "not_found"
     /\ ~SnapshotExists(ret.kind)
     /\ Cardinality(Eligible(db, ret.kind)) < NClusters(ret.kind))
        => /\ ret.status = "ok"
           /\ ResultIds = Eligible(db, ret.kind)
           /\ Len(ret.result) = Cardinality(Eligible(db, ret.kind))

\* C6: a build that resumes with fewer vectors than K changes no global and
\* is not answered with a failure.
C6_InsufficientCorpusSilent ==
    [][\A h \in Handlers :
          (/\ hs[h].pc = "fetched"
           /\ Len(hs[h].corpus) < NClusters(hs[h].kind)
           /\ hs'[h].pc = "idle")
              => /\ settings' = settings
                 /\ ret'.status \notin {"error", "build_error"}]_vars

\* The member lists cl partition the index range 0..n-1.
PartitionsRange(cl, n) ==
    /\ \A c \in DOMAIN cl : \A j \in DOMAIN cl[c] : cl[c][j] \in 0..(n - 1)
    /\ \A i \in 0..(n - 1) :
           Cardinality({cj \in {<<c, j>> : c \in DOMAIN cl, j \in 1..n} :
                           /\ cj[2] \in DOMAIN cl[cj[1]]
                           /\ cl[cj[1]][cj[2]] = i}) = 1

\* C7: the member lists of a published snapshot partition the index range
\* of the vector list the build ran on: every index is in exactly one list
\* and exactly once, and no member is outside the range.
C7_ClusterCoverage ==
    \A k \in Kinds :
        SnapshotExists(k)
            => PartitionsRange(settings[k].clusters[1], Len(builtFrom[k]))

C7_Witness ==
    \E k \in Kinds :
        /\ SnapshotExists(k)
        /\ Len(builtFrom[k]) > NClusters(k)
        /\ \E c \in DOMAIN settings[k].clusters[1] :
               Len(settings[k].clusters[1][c]) >= 2

\* C8: a snapshot that exists has exactly K member lists and K centroids,
\* K = 8 for postings and K = 4 for candidates.
C8_SnapshotHasKClusters ==
    \A k \in Kinds :
        SnapshotExists(k)
            => /\ Len(settings[k].clusters[1]) = IF k = "project" THEN 8 ELSE 4
               /\ settings[k].centroids # None
               /\ Len(settings[k].centroids[1])
                      = IF k = "project" THEN 8 ELSE 4

C8_Witness == SnapshotExists("project") /\ ret.op = "rank" /\ ret.status = "ok"

\* C9: the pairs a ranking request returns are in non-increasing order of
\* score.
C9_RankedDescending ==
    (ret.op = "rank" /\ ret.status = "ok")
        => \A j \in 1..(Len(ret.result) - 1) :
               ret.result[j][2] >= ret.result[j + 1][2]

C9_Witness ==
    /\ ret.op = "rank" /\ ret.status = "ok"
    /\ Len(ret.result) >= 2
    /\ ret.result[1][2] > ret.result[Len(ret.result)][2]

CentroidSims ==
    [c \in DOMAIN settings[ret.kind].centroids[1] |->
        CosineSimilarity(ret.q, settings[ret.kind].centroids[1][c])]

\* The entity ids at the member indices of cluster c (1-based) of the
\* snapshot of the returned kind.
MemberIds(c) ==
    {settings[ret.kind].vectors[1][settings[ret.kind].clusters[1][c][j] + 1][2] :
        j \in DOMAIN settings[ret.kind].clusters[1][c]}

\* C11: a ranking request returns the members of the cluster whose centroid
\* is most similar to the query vector, and of the clusters that tie for
\* the maximum it returns the members of the one with the lowest index.
C11_CentroidSelection ==
    (ret.op = "rank" /\ ret.status = "ok")
        => \E c \in DOMAIN CentroidSims :
               /\ \A d \in DOMAIN CentroidSims :
                      CentroidSims[d] <= CentroidSims[c]
               /\ \A d \in DOMAIN CentroidSims :
                      d < c => CentroidSims[d] < CentroidSims[c]
               /\ ResultIds = MemberIds(c)

\* A ranked list was returned while two clusters with different, non-empty
\* member lists tied for the maximum.
C11_Witness ==
    /\ ret.op = "rank" /\ ret.status = "ok"
    /\ \E c, d \in DOMAIN CentroidSims :
           /\ c < d
           /\ CentroidSims[c] = CentroidSims[d]
           /\ \A e \in DOMAIN CentroidSims :
                  CentroidSims[e] <= CentroidSims[c]
           /\ MemberIds(c) # {} /\ MemberIds(d) # {}
           /\ MemberIds(c) # MemberIds(d)

\* C12: a recommendation request for a query entity that does not exist
\* fails with the lookup's exception: it returns no ranked list and no
\* listing, takes no query vector (so none of zeros), and never gets as far
\* as the cluster call or the ranking.
C12_UnknownQueryFails ==
    /\ (ret.op \in {"rank", "listing"}
            /\ ~db[Other(ret.kind)][ret.id].present)
           => /\ ret.op = "rank" /\ ret.status = "not_found"
              /\ ret.result = <<>> /\ ret.q = None
    /\ \A h \in Handlers :
           hs[h].op = "rank" => db[Other(hs[h].kind)][hs[h].id].present

C12_Witness ==
    /\ ret.op = "rank" /\ ret.status = "not_found"
    /\ ~db[Other(ret.kind)][ret.id].present
    /\ SnapshotExists(ret.kind)

\* C13: every step that commits a change to the rows of a kind (a created,
\* updated or deleted entity) also enters the rebuild of that kind: the
\* committing handler is in the cluster call when the step ends.
C13_HookCoverage ==
    [][\A k \in Kinds :
          db'[k] # db[k]
              => \E h \in Handlers :
                     /\ hs[h].pc = "idle"
                     /\ hs'[h].pc = "fetching" /\ hs'[h].kind = k]_vars

\* The step resumes handler h after its corpus fetch and runs KMeans.fit.
RunsKMeans(h) ==
    /\ hs[h].pc = "fetched" /\ hs'[h].pc # "fetched"
    /\ ~(hs[h].kind = "candidate" /\ Len(hs[h].corpus) < MinCandidates)

\* C14: k-means runs only inside a ranking request: no mutation and no
\* other caller runs a build.
C14_LazyRebuild ==
    [][\A h \in Handlers : RunsKMeans(h) => hs[h].op = "rank"]_vars

\* The step completes a build of kind k: a handler resumes with a corpus on
\* which k-means succeeds.
SuccessfulBuild(k) ==
    \E h \in Handlers :
        /\ hs[h].pc = "fetched" /\ hs'[h].pc # "fetched"
        /\ hs[h].kind = k
        /\ BuildPublishes(k, hs[h].corpus)

\* C15: the index of each kind starts without a snapshot (EMPTY); member
\* lists appear, and are replaced, only in a step that completes a build;
\* a step that commits a change to the store leaves the snapshot as it was
\* (BUILT becomes STALE); and member lists, once there, never go back to
\* None, whatever mutation, failed build or ranking follows.
C15_IndexStateMachine ==
    /\ \A k \in Kinds : settings[k] = EmptySettings
    /\ [][\A k \in Kinds :
             /\ settings'[k].clusters # settings[k].clusters
                    => SuccessfulBuild(k)
             /\ SuccessfulBuild(k) => settings'[k].clusters # None
             /\ db'[k] # db[k] => settings'[k] = settings[k]
             /\ settings[k].clusters # None
                    => settings'[k].clusters # None]_vars

\* A build has failed on an index that had a snapshot, and the snapshot's
\* member lists are still there.
C15_Witness ==
    \E k \in Kinds :
        /\ SnapshotExists(k)
        /\ settings[k].vectors # Some(builtFrom[k])
        /\ ret.status = "error"

C17_LoadFailureFatal ==
    /\ \A h \in Handlers :
           hs[h].op \notin {"none", "startup"} => ft_model # 0
    /\ ret.op \notin {"none", "startup"} => ft_model # 0

\* The entity ids at the member indices of the member lists cl over the
\* vector list vectors.
IdsOfMembers(cl, vectors) ==
    UNION {{vectors[cl[c][j] + 1][2] : j \in DOMAIN cl[c]} :
              c \in DOMAIN cl}

\* C18: the corpus a build fetches is exactly the entities eligible in the
\* database at the fetch, one entry each, and the snapshot the build
\* publishes holds that corpus and has exactly its entities as members.
C18_SnapshotMembersEligible ==
    [][\A h \in Handlers :
          /\ (hs[h].pc = "fetching" /\ hs'[h].pc = "fetched")
                 => /\ Ids(hs'[h].corpus) = Eligible(db, hs[h].kind)
                    /\ Len(hs'[h].corpus)
                           = Cardinality(Eligible(db, hs[h].kind))
          /\ (/\ hs[h].pc = "fetched" /\ hs'[h].pc # "fetched"
              /\ BuildPublishes(hs[h].kind, hs[h].corpus))
                 => /\ settings'[hs[h].kind].vectors = Some(hs[h].corpus)
                    /\ IdsOfMembers(settings'[hs[h].kind].clusters[1],
                                    hs[h].corpus)
                           = Ids(hs[h].corpus)]_vars

\* An update that made an entity ineligible has returned, and the snapshot
\* its rebuild published is without that entity.
C18_Witness ==
    /\ ret.op = "update" /\ ret.status = "ok"
    /\ db[ret.kind][ret.id].present /\ ~db[ret.kind][ret.id].eligible
    /\ SnapshotExists(ret.kind)
    /\ settings[ret.kind].vectors = Some(builtFrom[ret.kind])
    /\ Ids(builtFrom[ret.kind]) = Eligible(db, ret.kind)

\* The module globals after handler h, resumed with its corpus, has run the
\* rest of its build on the globals g.
GlobalsAfter(g, h) ==
    Assigned(g, hs[h].kind, AfterBuild(hs[h].kind, g[hs[h].kind],
                                       hs[h].corpus))

\* C19: the globals of a kind change only in a step that resumes a build
\* of that kind, which leaves the globals of the other kind as they were;
\* and when a posting build and a candidate build are both about to
\* resume, either order of resuming them ends in the same globals.
C19_KindsIndependent ==
    [][/\ \A k \in Kinds :
              settings'[k] # settings[k]
                  => /\ \E h \in Handlers :
                            /\ hs[h].pc = "fetched" /\ hs[h].kind = k
                            /\ hs'[h].pc # "fetched"
                     /\ settings'[Other(k)] = settings[Other(k)]
       /\ \A g, h \in Handlers :
              (/\ hs[g].pc = "fetched" /\ hs[h].pc = "fetched"
               /\ hs[g].kind # hs[h].kind)
                  => GlobalsAfter(GlobalsAfter(settings, g), h)
                         = GlobalsAfter(GlobalsAfter(settings, h), g)]_vars

\* A posting build and a candidate build are both between their fetch and
\* their resumption, and both will publish.
C19_Witness ==
    \E g, h \in Handlers :
        /\ hs[g].pc = "fetched" /\ hs[h].pc = "fetched"
        /\ hs[g].kind = "project" /\ hs[h].kind = "candidate"
        /\ BuildPublishes("project", hs[g].corpus)
        /\ BuildPublishes("candidate", hs[h].corpus)

\* C20: the records a listing resolver returns are pairs of the engine's
\* ranked list, in the order they have there and with the score they have
\* there: the listing is the ranked list without the pairs that have no
\* record.
C20_HydrationKeepsOrder ==
    ret.op = "listing"
        => LET kept == {ret.result[j][1] : j \in DOMAIN ret.result}
               Kept(pair) == pair[1] \in kept
           IN  /\ ret.result = SelectSeq(ret.ranked, Kept)
               /\ Cardinality(kept) = Len(ret.result)

\* A listing of at least two records whose order is not that of their ids.
C20_Witness ==
    /\ ret.op = "listing"
    /\ \E j \in 1..(Len(ret.result) - 1) :
           /\ ret.result[j][1] > ret.result[j + 1][1]
           /\ ret.result[j][2] > ret.result[j + 1][2]

\* The call of preprocess_skillsets has returned; its argument and result.
Returned == preprocess_call.returned # None
Argument == preprocess_call.skillsets
Result == preprocess_call.returned[1]

\* f[1] \o ... \o f[n]
RECURSIVE ConcatFirst(_, _)
ConcatFirst(f, n) == IF n = 0 THEN <<>> ELSE ConcatFirst(f, n - 1) \o f[n]

\* C22: for a flat list of strings the normalizer returns one flat token
\* sequence, the tokens of the strings concatenated in input order; for a
\* list of lists it returns a sequence of the same length whose i-th
\* element is the concatenation of the tokens of the i-th sub-list.
C22_NormalizerShape ==
    Returned =>
        /\ (Argument # <<>> /\ \A i \in DOMAIN Argument : Argument[i].isStr)
               => Result = ConcatFirst([i \in DOMAIN Argument |->
                                           Cleaned(Argument[i].val)],
                                       Len(Argument))
        /\ (\A i \in DOMAIN Argument : ~Argument[i].isStr)
               => /\ Len(Result) = Len(Argument)
                  /\ \A i \in DOMAIN Argument :
                         Result[i] =
                             ConcatFirst([j \in DOMAIN Argument[i].val |->
                                             Cleaned(Argument[i].val[j])],
                                         Len(Argument[i].val))

\* A list of two sub-lists was normalized to two token lists, the first of
\* several tokens that come from different skills.
C22_Witness ==
    /\ Returned
    /\ Len(Argument) = 2
    /\ \A i \in DOMAIN Argument : ~Argument[i].isStr
    /\ Len(Argument[1].val) = 2
    /\ Cleaned(Argument[1].val[1]) # <<>>
    /\ Cleaned(Argument[1].val[2]) # <<>>
    /\ Cleaned(Argument[1].val[1]) # Cleaned(Argument[1].val[2])
    /\ Result[2] # <<>>

WellFormedToken(t) ==
    /\ t # <<>>
    /\ \A i \in DOMAIN t : t[i] \in LowercaseLetters \cup {"+"}

\* C23: every token the normalizer returns is non-empty and made of
\* lower-case letters and '+' only, whatever characters the input holds.
C23_NormalizerAlphabet ==
    Returned =>
        IF \E i \in DOMAIN Argument : Argument[i].isStr
        THEN \A j \in DOMAIN Result : WellFormedToken(Result[j])
        ELSE \A i \in DOMAIN Result :
                 \A j \in DOMAIN Result[i] : WellFormedToken(Result[i][j])

\* A string with an upper-case letter, a character outside the class and
\* whitespace was normalized to a token.
C23_Witness ==
    /\ Returned
    /\ Len(Argument) = 1 /\ Argument[1].isStr
    /\ Argument[1].val = <<" ", "1", "B">>
    /\ Result = <<<<"b">>>>

\* C21: a skill list that normalizes to nothing is given the all-zero
\* vector of the model's dimension: when import_csv has read a row whose
\* normalized skill list is empty, the row's project vector is that vector.
C21_ZeroFallback ==
    import_run.skills_processed = Some(<<>>)
        => import_run.project_vector = Some(Zeros(GetDimension))

\* C24: a recommendation request for an existing query entity without a
\* stored skill vector raises nothing, ranks with the all-zero query and
\* returns the members of the cluster of lowest index.
C24_ZeroVectorQuery ==
    (/\ ret.op = "rank"
     /\ db[Other(ret.kind)][ret.id].present
     /\ db[Other(ret.kind)][ret.id].vec = None)
        => /\ ret.status = "ok"
           /\ ret.q = ZeroVec
           /\ ResultIds = MemberIds(1)

\* Every member index of the snapshot of kind k is an index into the
\* stored vector list, and the entry there is the one the build that
\* published the member lists clustered at that index.
MembersValid(k) ==
    /\ settings[k].vectors # None
    /\ \A c \in DOMAIN settings[k].clusters[1] :
           \A j \in DOMAIN settings[k].clusters[1][c] :
               LET i == settings[k].clusters[1][c][j] + 1
               IN  /\ i \in DOMAIN settings[k].vectors[1]
                   /\ i \in DOMAIN builtFrom[k]
                   /\ settings[k].vectors[1][i] = builtFrom[k][i]

\* C25: a step in which a build of a kind that has a snapshot ends with an
\* exception changes none of the three globals of that kind, and in every state every member index of a
\* snapshot is valid in the stored vector list and refers to the entity it
\* was clustered as.
C25_AbortedBuildKeepsSnapshot ==
    /\ [](\A k \in Kinds : SnapshotExists(k) => MembersValid(k))
    /\ [][\A h \in Handlers :
             (/\ InBuild(h) /\ ~InBuild(h)'
              /\ SnapshotExists(hs[h].kind)
              /\ ret'.status \in {"error", "build_error"})
                 => settings' = settings]_vars

\* No mutation of kind k and no build of kind k is under way.
Quiescent(k) ==
    \A h \in Handlers :
        hs[h].kind = k => ~IsMutation(hs[h].op) /\ ~InBuild(h)

\* The snapshot of kind k is the one a build of the present store gives.
SnapshotCurrent(k) ==
    /\ SnapshotExists(k)
    /\ builtFrom[k] = FetchCorpus(db, k)
    /\ settings[k].vectors = Some(builtFrom[k])

\* C26: when a mutation that triggers a rebuild has returned success, no
\* mutation or build of its kind is under way, a snapshot is published and
\* the store holds enough entities for a build, the ids of the published
\* vector list are the eligible entities of the database; and the rebuild
\* of a mutation that resumes with a corpus older than the store never
\* replaces a snapshot built from the present store.
C26_QuiescentConsistency ==
    /\ []((/\ IsMutation(ret.op) /\ ret.status = "ok"
           /\ ~(ret.op = "create" /\ ret.kind = "candidate")
           /\ Quiescent(ret.kind)
           /\ SnapshotExists(ret.kind)
           /\ Cardinality(Eligible(db, ret.kind)) >= NClusters(ret.kind))
             => Ids(settings[ret.kind].vectors[1])
                    = Eligible(db, ret.kind))
    /\ [][\A h \in Handlers :
             (/\ hs[h].pc = "fetched" /\ hs'[h].pc # "fetched"
              /\ IsMutation(hs[h].op)
              /\ SnapshotCurrent(hs[h].kind)
              /\ hs[h].corpus # FetchCorpus(db, hs[h].kind))
                 => settings'[hs[h].kind] = settings[hs[h].kind]]_vars

\* Handler h, which has committed a posting mutation, returns in this step.
CommittedReturns(h) ==
    /\ IsMutation(hs[h].op) /\ hs[h].kind = "project"
    /\ hs'[h].op = "none"

\* C27: a posting mutation that has committed its change answers
\* success=True whatever its rebuild does, and one that answers
\* success=False at once has committed nothing.
C27_OutcomeMatchesPersistence ==
    [][/\ \A h \in Handlers : CommittedReturns(h) => ret'.status = "ok"
       /\ (/\ IsMutation(ret'.op) /\ ret'.kind = "project"
           /\ ret'.status # "ok"
           /\ ~\E h \in Handlers : CommittedReturns(h))
              => db' = db]_vars

\* C28: with member lists in place, the cluster call of a ranking request
\* starts no corpus fetch and no k-means (the request is in no build after
\* the step), and neither that step nor the hydration that follows changes
\* a global; the startup task's call of cluster_candidates() starts no
\* build either when candidate member lists are in place.
C28_CacheHitNoOp ==
    [][\A h \in Handlers :
          /\ (/\ hs[h].pc = "ranking" /\ hs'[h].pc # "ranking"
              /\ SnapshotExists(hs[h].kind))
                 => /\ ~InBuild(h)'
                    /\ settings' = settings /\ builtFrom' = builtFrom
          /\ (hs[h].pc = "hydrating" /\ hs'[h].pc # "hydrating")
                 => settings' = settings /\ builtFrom' = builtFrom
          /\ (/\ hs[h].op = "startup" /\ hs[h].pc = "fetched"
              /\ hs'[h].pc # "fetched"
              /\ SnapshotExists("candidate"))
                 => ~InBuild(h)']_vars

\* A ranked list of postings was returned that holds a posting whose
\* delete mutation had returned before the request started: the request
\* ranked on the snapshot it found.
C28_Witness ==
    /\ ret.op = "rank" /\ ret.status = "ok" /\ ret.kind = "project"
    /\ ResultIds \cap ret.gone # {}

\* C29: a step in which cluster_candidates resumes with fewer than 4
\* candidates changes none of the three candidate globals: none stays none,
\* a snapshot stays exactly as it was.
C29_SmallCandidateCorpusNoChange ==
    [][\A h \in Handlers :
          (/\ hs[h].pc = "fetched" /\ hs'[h].pc # "fetched"
           /\ hs[h].kind = "candidate"
           /\ Len(hs[h].corpus) < 4)
              => settings'["candidate"] = settings["candidate"]]_vars

\* The delete of a job seeker has returned success with fewer than 4
\* candidates left, and the snapshot built before it, which still holds
\* the deleted job seeker, is in place.
C29_Witness ==
    /\ ret.op = "delete" /\ ret.kind = "candidate" /\ ret.status = "ok"
    /\ Cardinality(Eligible(db, "candidate")) < 4
    /\ SnapshotExists("candidate")
    /\ settings["candidate"].vectors = Some(builtFrom["candidate"])
    /\ ret.id \in Ids(builtFrom["candidate"])

\* The row of the job seeker of a ranked pair exists.
SeekerExists(pair) == db["candidate"][pair[1]].present

\* C30: recommended_job_seeker_listing returns at most 10 job seekers:
\* the existing records among the first 10 entries of the ranked list, in
\* its order, and none ranked 11th or later.
C30_ListingTopTen ==
    (ret.op = "listing" /\ ret.kind = "candidate")
        => /\ Len(ret.result) <= 10
           /\ ret.result =
                  SelectSeq(SubSeq(ret.ranked, 1,
                                   IF Len(ret.ranked) < 10
                                   THEN Len(ret.ranked) ELSE 10),
                            SeekerExists)
           /\ \A j \in DOMAIN ret.ranked :
                  j > 10 => ret.ranked[j][1] \notin ResultIds

\* A listing was returned for a ranked list of more than 10 job seekers
\* of which one of the first 10 had been deleted.
C30_Witness ==
    /\ ret.op = "listing" /\ ret.kind = "candidate"
    /\ Len(ret.ranked) > 10
    /\ Len(ret.result) = 9
    /\ SeekerExists(ret.ranked[11])

====
